---- MODULE Spec2Model ----
\* State-machine model of the bonus-rate store and its HTTP handlers
\* (src/server.js; src/index.js, src/api/index.js and src/unnamed/part_000
\* repeat the same logic).  JavaScript handlers run to completion on one
\* thread; the SQLite statements they queue are executed later, one at a
\* time, and each completion callback is again a run-to-completion handler.
EXTENDS Integers, Sequences, FiniteSets, TLC

\* ---------------------------------------------------------------- bounds
MaxReqs == 2        \* requests the server receives
MaxBatch == 2       \* keys in one POSTed mapping
MaxArrayLen == 1    \* elements in a POSTed JSON array
MaxTime == 1        \* ticks of CURRENT_TIMESTAMP

Reqs == 1..MaxReqs

\* ------------------------------------------------------ JavaScript values
\* A JSON value as the handler sees it: t is the kind, n the number (or 0/1
\* for a boolean), s the text of a string, props the entries of an object
\* (<<key, value>> pairs in insertion order) or the elements of an array.
JsVal(t, n, s, props) == [t |-> t, n |-> n, s |-> s, props |-> props]
JsUndefined == JsVal("undefined", 0, "", <<>>)
JsNull == JsVal("null", 0, "", <<>>)
JsNumber(n) == JsVal("number", n, "", <<>>)
JsBoolean(b) == JsVal("boolean", IF b THEN 1 ELSE 0, "", <<>>)
JsString(s) == JsVal("string", 0, s, <<>>)
JsObject(props) == JsVal("object", 0, "", props)
JsArray(elems) == JsVal("array", 0, "", elems)

\* typeof x
TypeOf(x) ==
  CASE x.t = "undefined" -> "undefined"
    [] x.t = "null" -> "object"
    [] x.t = "array" -> "object"
    [] OTHER -> x.t

\* !x
Falsy(x) ==
  \/ x.t \in {"undefined", "null"}
  \/ x.t = "boolean" /\ x.n = 0
  \/ x.t = "number" /\ x.n = 0
  \/ x.t = "string" /\ x.s = ""

\* String(i) for an array index
IndexKey(i) == <<"0", "1", "2", "3", "4", "5", "6", "7", "8", "9">>[i + 1]

\* Object.keys(x): own keys in insertion order (no key of the model's objects
\* is an integer index), the indices of an array
ObjectKeys(x) ==
  CASE x.t = "object" -> [i \in 1..Len(x.props) |-> x.props[i][1]]
    [] x.t = "array" -> [i \in 1..Len(x.props) |-> IndexKey(i - 1)]
    [] OTHER -> <<>>

\* x[key]
GetProp(x, key) ==
  CASE x.t = "object" /\ \E i \in 1..Len(x.props) : x.props[i][1] = key ->
         x.props[CHOOSE i \in 1..Len(x.props) : x.props[i][1] = key][2]
    [] x.t = "array" /\ \E i \in 1..Len(x.props) : IndexKey(i - 1) = key ->
         x.props[CHOOSE i \in 1..Len(x.props) : IndexKey(i - 1) = key]
    [] OTHER -> JsUndefined

\* ----------------------------------------------------------------- rates
\* Rates are counted in units of 1e-9, so the defaults are whole numbers.
RateI == 50000
RateII == 55000
RateIII == 60000
defaultRates ==
  << <<"Level I", JsNumber(RateI)>>,
     <<"Level II", JsNumber(RateII)>>,
     <<"Level III", JsNumber(RateIII)>> >>

\* The digits, as the keys of an array's elements
IndexKeys == {IndexKey(i) : i \in 0..9}

\* The bytes of a key: "Level " is 76 101 118 101 108 32, 'I' is 73, 'V' is
\* 86, the digit d is 48 + d
LevelBytes(level) ==
  CASE level = "Level I" -> <<76, 101, 118, 101, 108, 32, 73>>
    [] level = "Level II" -> <<76, 101, 118, 101, 108, 32, 73, 73>>
    [] level = "Level III" -> <<76, 101, 118, 101, 108, 32, 73, 73, 73>>
    [] level = "Level IV" -> <<76, 101, 118, 101, 108, 32, 73, 86>>
    [] level \in IndexKeys -> <<48 + (CHOOSE i \in 0..9 : IndexKey(i) = level)>>

RECURSIVE BytesLess(_, _)
BytesLess(a, b) ==
  IF a = <<>> THEN b # <<>>
  ELSE IF b = <<>> THEN FALSE
  ELSE IF a[1] # b[1] THEN a[1] < b[1]
  ELSE BytesLess(Tail(a), Tail(b))

\* ORDER BY level under SQLite's BINARY collation (memcmp, shorter first)
LevelLess(a, b) == BytesLess(LevelBytes(a), LevelBytes(b))

\* --------------------------------------------------------------- the store
VARIABLES
  schema,     \* TRUE once CREATE TABLE bonus_rates has run
  table,      \* rows of bonus_rates: [id, level, rate, updated_at]
  now,        \* CURRENT_TIMESTAMP
  initPc,     \* position of the initialization in its queued statements
  req,        \* per request slot: the handler's closure and response
  lastWrite,  \* history: per tier, the request whose UPDATE changed its row
              \* last (0: none since the row was inserted)
  cold        \* the initialization of a second process that cold-starts on
              \* the same backing file: its position, and (history) the tiers
              \* it found already written by a request

vars == <<schema, table, now, initPc, req, lastWrite, cold>>

\* lastWrite of a row that a request of an earlier process changed
EarlierProcess == 0 - 1

Levels(tbl) == {row.level : row \in tbl}

RowOf(tbl, level) == CHOOSE row \in tbl : row.level = level

\* AUTOINCREMENT: one more than the largest id
NextId(tbl) ==
  IF tbl = {} THEN 1
  ELSE 1 + (CHOOSE m \in {row.id : row \in tbl} : \A row \in tbl : row.id <= m)

\* How a bound parameter is stored in a REAL NOT NULL column: numbers and
\* booleans as numbers, null as NULL, text that is no number as text.
SqlBind(x) ==
  CASE x.t = "number" -> JsNumber(x.n)
    [] x.t = "boolean" -> JsNumber(x.n)
    [] x.t = "string" -> JsString(x.s)
    [] OTHER -> JsNull

\* Variant: a plain INSERT into a table whose level column is not UNIQUE
InsertNoUnique(tbl, level, rate, ts) ==
  tbl \cup {[id |-> NextId(tbl), level |-> level,
             rate |-> SqlBind(rate), updated_at |-> ts]}

\* Variant: INSERT OR REPLACE, which overwrites the row of an existing tier
InsertOrReplace(tbl, level, rate, ts) ==
  {row \in tbl : row.level # level}
    \cup {[id |-> NextId(tbl), level |-> level,
           rate |-> SqlBind(rate), updated_at |-> ts]}

\* INSERT OR IGNORE INTO bonus_rates (level, rate) VALUES (?, ?)
InsertOrIgnore(tbl, level, rate, ts) ==
  IF level \in Levels(tbl) THEN tbl
  ELSE tbl \cup {[id |-> NextId(tbl), level |-> level,
                  rate |-> SqlBind(rate), updated_at |-> ts]}

\* rate REAL NOT NULL: the UPDATE fails when it would put NULL in a row
ConstraintFails(tbl, level, rate) ==
  level \in Levels(tbl) /\ SqlBind(rate).t = "null"

\* Variant: an upsert, which adds the row when no tier has the name
UpdateRowUpsert(tbl, level, rate, ts) ==
  {row \in tbl : row.level # level}
    \cup {[id |-> IF level \in Levels(tbl) THEN RowOf(tbl, level).id ELSE NextId(tbl),
           level |-> level, rate |-> SqlBind(rate), updated_at |-> ts]}

\* Variant: the WHERE clause is missing, every row is updated
UpdateRowNoWhere(tbl, level, rate, ts) ==
  {[row EXCEPT !.rate = SqlBind(rate), !.updated_at = ts] : row \in tbl}

\* Variant: SET rate = rate + ?, the new rate is added to the old one
UpdateRowIncrement(tbl, level, rate, ts) ==
  {IF row.level = level
     THEN [row EXCEPT !.rate = IF SqlBind(rate).t = "number" /\ @.t = "number"
                                THEN JsNumber(@.n + SqlBind(rate).n)
                                ELSE SqlBind(rate),
                      !.updated_at = ts]
     ELSE row : row \in tbl}

\* Variant: the statement sets the rate and leaves updated_at as it was
UpdateRowRateOnly(tbl, level, rate, ts) ==
  {IF row.level = level
     THEN [row EXCEPT !.rate = SqlBind(rate)]
     ELSE row : row \in tbl}

\* Variant: a guarded update, which leaves a row that was already updated
\* (its rate is no longer the default) to its first writer
UpdateRowFirstWins(tbl, level, rate, ts) ==
  {IF row.level = level
        /\ \E k \in 1..Len(defaultRates) :
             defaultRates[k] = <<row.level, row.rate>>
     THEN [row EXCEPT !.rate = SqlBind(rate), !.updated_at = ts]
     ELSE row : row \in tbl}

\* UPDATE bonus_rates SET rate = ?, updated_at = CURRENT_TIMESTAMP WHERE level = ?
UpdateRow(tbl, level, rate, ts) ==
  {IF row.level = level
     THEN [row EXCEPT !.rate = SqlBind(rate), !.updated_at = ts]
     ELSE row : row \in tbl}

RECURSIVE SortRowsDesc(_)
\* Variant: ORDER BY level DESC
SortRowsDesc(tbl) ==
  IF tbl = {} THEN <<>>
  ELSE LET first == CHOOSE row \in tbl :
                      \A other \in tbl : ~LevelLess(row.level, other.level)
       IN <<[level |-> first.level, rate |-> first.rate]>>
            \o SortRowsDesc(tbl \ {first})

RECURSIVE SortRows(_)
\* SELECT level, rate FROM bonus_rates ORDER BY level
SortRows(tbl) ==
  IF tbl = {} THEN <<>>
  ELSE LET first == CHOOSE row \in tbl :
                      \A other \in tbl : ~LevelLess(other.level, row.level)
       IN <<[level |-> first.level, rate |-> first.rate]>>
            \o SortRows(tbl \ {first})

RECURSIVE BuildRatesFirstRow(_, _)
\* Variant: every entry gets the rate of the row that is first at that point,
\* rates[row.level] = rows[0].rate
BuildRatesFirstRow(rows, rates) ==
  IF rows = <<>> THEN rates
  ELSE BuildRatesFirstRow(Tail(rows),
         Append(rates, <<Head(rows).level,
                         IF rates = <<>> THEN Head(rows).rate ELSE rates[1][2]>>))

RECURSIVE BuildRates(_, _)
\* rows.forEach(row => { rates[row.level] = row.rate })
BuildRates(rows, rates) ==
  IF rows = <<>> THEN rates
  ELSE LET row == Head(rows)
           at == {i \in 1..Len(rates) : rates[i][1] = row.level}
       IN BuildRates(Tail(rows),
            IF at = {} THEN Append(rates, <<row.level, row.rate>>)
            ELSE [rates EXCEPT ![CHOOSE i \in at : TRUE] = <<row.level, row.rate>>])

\* The mapping GET /api/bonus-rates answers with
ReadAll(tbl) == JsObject(BuildRates(SortRows(tbl), <<>>))

\* ------------------------------------------------------------ the requests
Response(status, body) == [status |-> status, body |-> body]
ErrorBody(text) == JsObject(<< <<"error", JsString(text)>> >>)
MessageBody(text) == JsObject(<< <<"message", JsString(text)>> >>)

\* A request slot: the closure of one handler invocation.
\*   rates      req.body.rates                 stmt      the prepared UPDATE
\*   levels     Object.keys(rates)             results   err of each executed run
\*   called     completion callbacks run       completed, hasError  the counters
\*   read, rows state and result of db.all     responses what res has sent
NoRequest ==
  [kind |-> "none", rates |-> JsUndefined, stmt |-> "none", levels |-> <<>>,
   results |-> <<>>, called |-> 0, completed |-> 0, hasError |-> FALSE,
   read |-> "none", rows |-> <<>>, responses |-> <<>>]

\* Every statement the request queued has run and called back
Settled(q) ==
  CASE q.kind = "POST" -> q.called = Len(q.levels)
    [] q.kind = "GET" -> q.read = "done"
    [] OTHER -> TRUE

\* ---------------------------------------------------------------- payloads
\* The entries a POSTed mapping is built from: two new rates and null for an
\* existing tier, a new rate for a second one, and a tier the store lacks.
RateEntries ==
  { <<"Level I", JsNumber(100000)>>, <<"Level I", JsNumber(200000)>>,
    <<"Level I", JsNull>>, <<"Level II", JsNumber(100000)>>,
    <<"Level IV", JsNumber(500000000)>> }
ArrayElements == {JsNumber(100000)}

RECURSIVE Mappings(_)
Mappings(n) ==
  IF n = 0 THEN {<<>>}
  ELSE LET shorter == Mappings(n - 1)
       IN shorter \cup
          {Append(m, e) : m \in {x \in shorter : Len(x) = n - 1}, e \in RateEntries}

DistinctKeys(m) == \A i, j \in 1..Len(m) : m[i][1] = m[j][1] => i = j

RECURSIVE Arrays(_)
Arrays(n) ==
  IF n = 0 THEN {<<>>}
  ELSE LET shorter == Arrays(n - 1)
       IN shorter \cup
          {Append(a, v) : a \in {x \in shorter : Len(x) = n - 1}, v \in ArrayElements}

MappingPayloads == {JsObject(m) : m \in {x \in Mappings(MaxBatch) : DistinctKeys(x)}}
ArrayPayloads == {JsArray(a) : a \in Arrays(MaxArrayLen)}
ScalarPayloads ==
  {JsUndefined, JsNull, JsString("not-an-object"), JsString(""),
   JsNumber(0), JsNumber(5), JsBoolean(TRUE), JsBoolean(FALSE)}
Payloads == MappingPayloads \cup ArrayPayloads \cup ScalarPayloads

\* Mappings whose value is text that is no number: typeof rates is 'object',
\* and the handler does not look at the values
TextPayloads == {JsObject(<< <<"Level II", JsString("abc")>> >>)}

\* Every key a request can name: the tier names and the indices of an array
AllLevels == {"Level I", "Level II", "Level III", "Level IV"} \cup IndexKeys

\* ------------------------------------------------------------------ actions
\* No second process
ColdIdle == [pc |-> "idle", kept |-> {}]

Init ==
  /\ schema = FALSE
  /\ table = {}
  /\ now = 0
  /\ initPc = "create"
  /\ req = [r \in Reqs |-> NoRequest]
  /\ lastWrite = [l \in AllLevels |-> 0]
  /\ cold = ColdIdle

Tick ==
  /\ now < MaxTime
  /\ now' = now + 1
  /\ UNCHANGED <<schema, table, initPc, req, lastWrite, cold>>

\* Process start: initDatabase() queues CREATE TABLE, the three INSERT OR
\* IGNORE runs and the finalize.  The requests of the process that ended are
\* gone; the backing file survives (/tmp/bonus_calculator.db) or does not
\* (':memory:', an ephemeral file system).
Restart(survives) ==
  /\ initPc' = "create"
  /\ req' = [r \in Reqs |-> NoRequest]
  /\ lastWrite' = [l \in AllLevels |->
                    IF survives /\ lastWrite[l] # 0 THEN EarlierProcess ELSE 0]
  /\ schema' = (survives /\ schema)
  /\ table' = IF survives THEN table ELSE {}
  /\ UNCHANGED <<now, cold>>

CreateTable ==
  /\ initPc = "create"
  /\ schema' = TRUE
  /\ initPc' = "insert1"
  /\ UNCHANGED <<table, now, req, lastWrite, cold>>

InsertStep(pc) ==
  CASE pc = "insert1" -> 1 [] pc = "insert2" -> 2 [] pc = "insert3" -> 3 [] OTHER -> 0

AfterInsert(k) == <<"insert2", "insert3", "finalize">>[k]

\* stmt.run(level, rate) of the k-th default
InsertDefault ==
  /\ InsertStep(initPc) > 0
  /\ LET k == InsertStep(initPc)
     IN /\ table' = InsertOrIgnore(table, defaultRates[k][1], defaultRates[k][2], now)
        /\ initPc' = AfterInsert(k)
  /\ UNCHANGED <<schema, now, req, lastWrite, cold>>

FinalizeInsert ==
  /\ initPc = "finalize"
  /\ initPc' = "done"
  /\ UNCHANGED <<schema, table, now, req, lastWrite, cold>>

\* The server answers requests once its initialization has run; requests are
\* numbered in their order of arrival
Arrives(r) ==
  /\ initPc = "done"
  /\ req[r].kind = "none"
  /\ \A earlier \in 1..(r - 1) : req[earlier].kind # "none"

\* A second process cold-starts on the same file while the first is
\* initializing or serving: module load calls initDatabase(), whose
\* statements SQLite executes one by one, interleaved with the statements of
\* the first process
ColdCreateTable ==
  /\ cold.pc = "create"
  /\ schema' = TRUE
  /\ cold' = [cold EXCEPT !.pc = "insert1"]
  /\ UNCHANGED <<table, now, initPc, req, lastWrite>>

\* stmt.run(level, rate) of the second process's k-th default
ColdInsertDefault ==
  /\ InsertStep(cold.pc) > 0
  /\ LET k == InsertStep(cold.pc)
         level == defaultRates[k][1]
     IN /\ table' = InsertOrIgnore(table, level, defaultRates[k][2], now)
        /\ cold' = [pc |-> AfterInsert(k),
                    kept |-> IF level \in Levels(table) /\ lastWrite[level] \in Reqs
                             THEN cold.kept \cup {level} ELSE cold.kept]
  /\ UNCHANGED <<schema, now, initPc, req, lastWrite>>

ColdFinalizeInsert ==
  /\ cold.pc = "finalize"
  /\ cold' = [cold EXCEPT !.pc = "done"]
  /\ UNCHANGED <<schema, table, now, initPc, req, lastWrite>>

\* Variant: the !rates test is missing
InvalidRatesTypeOnly(rates) == TypeOf(rates) # "object"

\* if (!rates || typeof rates !== 'object')
InvalidRates(rates) == Falsy(rates) \/ TypeOf(rates) # "object"

\* app.post('/api/bonus-rates'): the synchronous part of the handler
PostHandler(rates) ==
  IF InvalidRates(rates)
  THEN [NoRequest EXCEPT !.kind = "POST", !.rates = rates,
          !.responses = <<Response(400, ErrorBody("Invalid rates data"))>>]
  ELSE [NoRequest EXCEPT !.kind = "POST", !.rates = rates,
          !.stmt = "prepared", !.levels = ObjectKeys(rates)]

UpdateRates(r, rates) ==
  /\ Arrives(r)
  /\ req' = [req EXCEPT ![r] = PostHandler(rates)]
  /\ UNCHANGED <<schema, table, now, initPc, lastWrite, cold>>

\* Variant: the batch runs in a transaction that a failing run rolls back,
\* the rows of the batch's earlier keys get back their default rates
FailedRunRollsBack(tbl, q) ==
  {IF \E i \in 1..Len(q.results) : q.levels[i] = row.level
     THEN [row EXCEPT !.rate =
             (CHOOSE d \in {defaultRates[k] : k \in 1..Len(defaultRates)} :
                d[1] = row.level)[2]]
     ELSE row : row \in tbl}

\* The store after a run of request q failed: the failing statement changes
\* nothing, and the handler rolls nothing back
FailedRun(tbl, q) == tbl

\* Variant: the runs that are still queued when a run has failed are dropped
StmtRunStopsOnError(r) ==
  LET q == req[r]
      level == q.levels[Len(q.results) + 1]
      rate == GetProp(q.rates, level)
  IN /\ q.kind = "POST"
     /\ q.stmt = "prepared"
     /\ q.called = Len(q.results)
     /\ Len(q.results) < Len(q.levels)
     /\ ~q.hasError
     /\ \E ioError \in BOOLEAN :
          IF ioError \/ ConstraintFails(table, level, rate)
          THEN /\ req' = [req EXCEPT ![r].results = Append(@, "error")]
               /\ table' = FailedRun(table, q)
               /\ UNCHANGED lastWrite
          ELSE /\ req' = [req EXCEPT ![r].results = Append(@, "ok")]
               /\ table' = UpdateRow(table, level, rate, now)
               /\ lastWrite' = IF level \in Levels(table)
                               THEN [lastWrite EXCEPT ![level] = r]
                               ELSE lastWrite
     /\ UNCHANGED <<schema, now, initPc, cold>>

\* SQLite executes the statement's next queued run: stmt.run(rates[level], level)
StmtRun(r) ==
  LET q == req[r]
      level == q.levels[Len(q.results) + 1]
      rate == GetProp(q.rates, level)
  IN /\ q.kind = "POST"
     /\ q.stmt = "prepared"
     /\ q.called = Len(q.results)
     /\ Len(q.results) < Len(q.levels)
     /\ \E ioError \in BOOLEAN :
          IF ioError \/ ConstraintFails(table, level, rate)
          THEN /\ req' = [req EXCEPT ![r].results = Append(@, "error")]
               /\ table' = FailedRun(table, q)
               /\ UNCHANGED lastWrite
          ELSE /\ req' = [req EXCEPT ![r].results = Append(@, "ok")]
               /\ table' = UpdateRow(table, level, rate, now)
               /\ lastWrite' = IF level \in Levels(table)
                               THEN [lastWrite EXCEPT ![level] = r]
                               ELSE lastWrite
     /\ UNCHANGED <<schema, now, initPc, cold>>

\* Variant: the error branch is taken on every err, if (err) without
\* the hasError test
RunCallbackNoFlag(q) ==
  LET err == q.results[q.called + 1] = "error"
      ran == [q EXCEPT !.called = @ + 1]
  IN IF err
     THEN [ran EXCEPT !.hasError = TRUE,
             !.responses = Append(@, Response(500, ErrorBody("Failed to update rates")))]
     ELSE IF q.completed + 1 = Len(q.levels) /\ ~q.hasError
     THEN [ran EXCEPT !.completed = @ + 1, !.stmt = "finalized",
             !.responses = Append(@, Response(200, MessageBody("Rates updated successfully")))]
     ELSE [ran EXCEPT !.completed = @ + 1]

\* Variant: the callback does not look at err
RunCallbackIgnoringErr(q) ==
  IF q.completed + 1 = Len(q.levels)
  THEN [q EXCEPT !.called = @ + 1, !.completed = @ + 1, !.stmt = "finalized",
          !.responses = Append(@, Response(200, MessageBody("Rates updated successfully")))]
  ELSE [q EXCEPT !.called = @ + 1, !.completed = @ + 1]

\* function(err) { ... }: the completion callback of one run
RunCallback(q) ==
  LET err == q.results[q.called + 1] = "error"
      ran == [q EXCEPT !.called = @ + 1]
  IN IF err /\ ~q.hasError
     THEN [ran EXCEPT !.hasError = TRUE,
             !.responses = Append(@, Response(500, ErrorBody("Failed to update rates")))]
     ELSE IF q.completed + 1 = Len(q.levels) /\ ~q.hasError
     THEN [ran EXCEPT !.completed = @ + 1, !.stmt = "finalized",
             !.responses = Append(@, Response(200, MessageBody("Rates updated successfully")))]
     ELSE [ran EXCEPT !.completed = @ + 1]

StmtCallback(r) ==
  /\ req[r].kind = "POST"
  /\ req[r].called < Len(req[r].results)
  /\ req' = [req EXCEPT ![r] = RunCallback(req[r])]
  /\ UNCHANGED <<schema, table, now, initPc, lastWrite, cold>>

\* app.get('/api/bonus-rates'): the handler queues db.all
GetRates(r) ==
  /\ Arrives(r)
  /\ req' = [req EXCEPT ![r] = [NoRequest EXCEPT !.kind = "GET", !.read = "queued"]]
  /\ UNCHANGED <<schema, table, now, initPc, lastWrite, cold>>

\* SQLite executes the SELECT, or fails to
DbAll(r) ==
  /\ req[r].kind = "GET"
  /\ req[r].read = "queued"
  /\ \E ioError \in BOOLEAN :
       req' = [req EXCEPT ![r].read = IF ioError THEN "error" ELSE "ok",
                          ![r].rows = IF ioError THEN <<>> ELSE SortRows(table)]
  /\ UNCHANGED <<schema, table, now, initPc, lastWrite, cold>>

\* Variant: the error branch does not return, and the mapping of the rows
\* that were read (none) is sent after the failure
AllCallbackNoReturn(q) ==
  IF q.read = "error"
  THEN [q EXCEPT !.read = "done",
          !.responses = <<Response(500, ErrorBody("Failed to fetch bonus rates")),
                          Response(200, JsObject(BuildRates(q.rows, <<>>)))>>]
  ELSE [q EXCEPT !.read = "done",
          !.responses = Append(@, Response(200, JsObject(BuildRates(q.rows, <<>>))))]

\* (err, rows) => { ... }: the callback of db.all
AllCallback(q) ==
  IF q.read = "error"
  THEN [q EXCEPT !.read = "done",
          !.responses = Append(@, Response(500, ErrorBody("Failed to fetch bonus rates")))]
  ELSE [q EXCEPT !.read = "done",
          !.responses = Append(@, Response(200, JsObject(BuildRates(q.rows, <<>>))))]

GetCallback(r) ==
  /\ req[r].kind = "GET"
  /\ req[r].read \in {"ok", "error"}
  /\ req' = [req EXCEPT ![r] = AllCallback(req[r])]
  /\ UNCHANGED <<schema, table, now, initPc, lastWrite, cold>>

\* ------------------------------------------------------------------ claims
Posted(q) == q.kind = "POST"
Sent(q, status) == \E i \in 1..Len(q.responses) : q.responses[i].status = status
ErrorsOf(q) == {i \in 1..Len(q.results) : q.results[i] = "error"}
RateOf(tbl, level) == GetProp(ReadAll(tbl), level)
\* a step in which SQLite executes a run of request r's UPDATE
RunStepOf(r) == Len(req'[r].results) = Len(req[r].results) + 1

\* C1: every POST request is answered: a request that has nothing queued,
\* running or waiting for its callback has been sent a response -- also one
\* whose payload is the empty mapping.
C1_EveryRequestAnswered ==
  \A r \in Reqs : Posted(req[r]) /\ Settled(req[r]) => req[r].responses # <<>>

\* C2: a POST is answered 200 only when every key's run has completed and
\* called back without an error, and a non-empty batch whose runs all
\* completed without an error has been answered 200.
C2_SuccessOnlyAfterAllWrites ==
  \A r \in Reqs :
    LET q == req[r]
    IN Posted(q) =>
         /\ Sent(q, 200) =>
              /\ q.called = Len(q.levels)
              /\ Len(q.results) = Len(q.levels)
              /\ ErrorsOf(q) = {}
         /\ (q.levels # <<>> /\ q.called = Len(q.levels) /\ ErrorsOf(q) = {}) =>
              q.responses = <<Response(200, MessageBody("Rates updated successfully"))>>

C2_Witness ==
  \E r \in Reqs :
    /\ Posted(req[r]) /\ Len(req[r].levels) = 2
    /\ Sent(req[r], 200)

\* C3: when exactly one run of a batch failed and has called back, the request
\* is answered 500, once, and every key before the failing one whose row this
\* request wrote last still reads back the rate the batch gave it.
C3_PartialFailureKeepsEarlierKeys ==
  \A r \in Reqs :
    LET q == req[r]
    IN (Posted(q) /\ Cardinality(ErrorsOf(q)) = 1 /\ Settled(q)) =>
         /\ q.responses = <<Response(500, ErrorBody("Failed to update rates"))>>
         /\ \A i \in 1..Len(q.levels) :
              (\A k \in ErrorsOf(q) : i < k) /\ lastWrite[q.levels[i]] = r =>
                RateOf(table, q.levels[i]) = GetProp(q.rates, q.levels[i])

C3_Witness ==
  \E r \in Reqs :
    /\ Posted(req[r]) /\ Settled(req[r])
    /\ req[r].levels = <<"Level I", "Level II">>
    /\ req[r].results = <<"ok", "error">>
    /\ Sent(req[r], 500)
    /\ RateOf(table, "Level I") = JsNumber(100000)

\* The parts of C4: the names once initialized, and what a run may change
C4_NamesInv ==
  /\ initPc = "done" =>
       /\ Levels(table) = {defaultRates[k][1] : k \in 1..Len(defaultRates)}
       /\ Cardinality(table) = Len(defaultRates)
  /\ \A r \in Reqs :
       LET q == req[r]
       IN (Posted(q) /\ q.levels # <<>> /\ Settled(q) /\ ErrorsOf(q) = {}
             /\ \A i \in 1..Len(q.levels) : q.levels[i] \notin Levels(table)) =>
            Sent(q, 200)

C4_RunStep ==
  \A r \in Reqs :
    RunStepOf(r) =>
      /\ Levels(table') = Levels(table)
      /\ Cardinality(table') = Cardinality(table)
      /\ req[r].levels[Len(req'[r].results)] \notin Levels(table) => table' = table

\* C4: once initialized the store holds the three default tier names, each in
\* one row; no run of an UPDATE changes the set of names or the number of rows;
\* and a batch that names only tiers the store lacks leaves every row as it was
\* and, when none of its runs failed, is answered 200.
C4_TierNamesFixed == []C4_NamesInv /\ [][C4_RunStep]_vars

C4_Witness ==
  \E r \in Reqs :
    /\ Posted(req[r]) /\ req[r].levels = <<"Level IV">>
    /\ Sent(req[r], 200)
    /\ "Level IV" \notin Levels(table)
    /\ Cardinality(table) = 3

\* The parts of C5: the payloads, the answer, and the handler's step
C5_Rejected == {JsNull, JsUndefined, JsString("not-an-object")}

C5_Answered400 ==
  \A r \in Reqs :
    (Posted(req[r]) /\ req[r].rates \in C5_Rejected) =>
      /\ req[r].responses = <<Response(400, ErrorBody("Invalid rates data"))>>
      /\ req[r].stmt = "none"
      /\ req[r].results = <<>>

C5_HandlerStep ==
  \A r \in Reqs :
    (~Posted(req[r]) /\ Posted(req'[r]) /\ req'[r].rates \in C5_Rejected) =>
      table' = table

\* C5: a POST whose rates is null, absent or the text "not-an-object" is
\* answered 400, prepares and runs nothing, and the step that handles it
\* leaves every row (rate and updated_at) as it was.
C5_NullAndTextRejected == []C5_Answered400 /\ [][C5_HandlerStep]_vars

C5_Witness ==
  \E r1, r2 \in Reqs :
    /\ Posted(req[r1]) /\ req[r1].rates = JsNull /\ Sent(req[r1], 400)
    /\ Posted(req[r2]) /\ req[r2].rates = JsString("not-an-object")
    /\ Sent(req[r2], 400)
    /\ RateOf(table, "Level I") = JsNumber(RateI)

\* C6: a POST whose rates is not a mapping -- null, absent, a string, a
\* number, a boolean or an array -- is answered 400 and prepares no statement.
C6_NonMappingRejected ==
  \A r \in Reqs :
    (Posted(req[r]) /\ req[r].rates.t # "object") =>
      /\ req[r].responses = <<Response(400, ErrorBody("Invalid rates data"))>>
      /\ req[r].stmt = "none"

\* The parts of C7: the store once initialized, and what an insert may change
C7_AfterInit ==
  initPc = "done" =>
    /\ Cardinality(table) = Len(defaultRates)
    /\ \A k \in 1..Len(defaultRates) :
         /\ Cardinality({row \in table : row.level = defaultRates[k][1]}) = 1
         /\ lastWrite[defaultRates[k][1]] = 0 =>
              RateOf(table, defaultRates[k][1]) = defaultRates[k][2]

C7_InsertStep ==
  (InsertStep(initPc) > 0 /\ initPc' = AfterInsert(InsertStep(initPc))) =>
    /\ table \subseteq table'
    /\ \A row \in table' \ table :
         /\ row.level = defaultRates[InsertStep(initPc)][1]
         /\ row.rate = defaultRates[InsertStep(initPc)][2]
         /\ row.level \notin Levels(table)

\* C7: an INSERT OR IGNORE of a default leaves every existing row as it was
\* and adds at most the row of a default the store lacks; once the
\* initialization has run the store holds one row per default tier, and a
\* tier no request has updated has its default rate.
C7_InitializeIdempotent == []C7_AfterInit /\ [][C7_InsertStep]_vars

C7_Witness ==
  /\ initPc = "done"
  /\ lastWrite["Level I"] = EarlierProcess
  /\ RateOf(table, "Level I") = JsNumber(100000)
  /\ RateOf(table, "Level II") = JsNumber(RateII)
  /\ Cardinality(table) = 3

\* The names of a mapping's entries ascend
Ascending(props) ==
  \A i, j \in 1..Len(props) : i < j => LevelLess(props[i][1], props[j][1])

\* C8: the mapping a read returns has exactly one <<name, rate>> entry per
\* row, carrying the row's rate and nothing else, with the names in ascending
\* order; a store no request has updated reads back the three defaults; and a
\* GET answered 200 carries such a mapping of the store's tiers.
C8_ReadAllSorted ==
  LET rates == ReadAll(table).props
  IN /\ Len(rates) = Cardinality(table)
     /\ \A row \in table : \E i \in 1..Len(rates) : rates[i] = <<row.level, row.rate>>
     /\ Ascending(rates)
     /\ (initPc = "done" /\ \A l \in AllLevels : lastWrite[l] = 0) =>
          rates = << <<"Level I", JsNumber(50000)>>,
                     <<"Level II", JsNumber(55000)>>,
                     <<"Level III", JsNumber(60000)>> >>
     /\ \A r \in Reqs :
          (req[r].kind = "GET" /\ Sent(req[r], 200)) =>
            /\ Len(req[r].responses) = 1
            /\ Ascending(req[r].responses[1].body.props)
            /\ [i \in 1..Len(rates) |-> rates[i][1]]
                 = [i \in 1..Len(rates) |-> req[r].responses[1].body.props[i][1]]
            /\ Len(req[r].responses[1].body.props) = Len(rates)

C8_Witness ==
  \E r \in Reqs :
    /\ req[r].kind = "GET"
    /\ req[r].responses =
         <<Response(200, JsObject(<< <<"Level I", JsNumber(200000)>>,
                                     <<"Level II", JsNumber(55000)>>,
                                     <<"Level III", JsNumber(60000)>> >>))>>

\* The parts of C9: what a run changes, and the store after a success
C9_RunStep ==
  \A r \in Reqs :
    RunStepOf(r) =>
      LET level == req[r].levels[Len(req'[r].results)]
          rate == GetProp(req[r].rates, level)
      IN IF req'[r].results[Len(req'[r].results)] = "ok"
         THEN table' = {IF row.level = level
                          THEN [id |-> row.id, level |-> row.level,
                                rate |-> rate, updated_at |-> now]
                          ELSE row : row \in table}
         ELSE table' = table

C9_AfterSuccess ==
  \A r \in Reqs :
    (Posted(req[r]) /\ Sent(req[r], 200)) =>
      \A i \in 1..Len(req[r].levels) :
        LET level == req[r].levels[i]
        IN level \in Levels(table) =>
             /\ lastWrite[level] \in Reqs
             /\ lastWrite[level] = r =>
                  RateOf(table, level) = GetProp(req[r].rates, level)

\* C9: a run of an UPDATE that succeeds gives the named row the batch's rate
\* and the current time and leaves every other row as it was, and one that
\* fails leaves every row as it was; after a POST is answered 200, every
\* existing tier it names has been written, and reads back the batch's rate
\* unless a later request wrote it.
C9_OnlyNamedTiersChange == []C9_AfterSuccess /\ [][C9_RunStep]_vars

C9_Witness ==
  \E r \in Reqs :
    /\ Posted(req[r]) /\ Sent(req[r], 200)
    /\ req[r].levels = <<"Level I">>
    /\ RowOf(table, "Level I").rate = JsNumber(100000)
    /\ RowOf(table, "Level I").updated_at = 1
    /\ RowOf(table, "Level II").rate = JsNumber(RateII)
    /\ RowOf(table, "Level II").updated_at = 0

\* The parts of C10: the rates of a store, and a run of the repeated batch
RatesOf(tbl) == {<<row.level, row.rate>> : row \in tbl}

C10_SecondRunStep ==
  \A r1, r2 \in Reqs :
    ( /\ r1 # r2
      /\ Posted(req[r1]) /\ Sent(req[r1], 200)
      /\ Posted(req[r2]) /\ req[r2].rates = req[r1].rates
      /\ \A i \in 1..Len(req[r1].levels) :
           req[r1].levels[i] \in Levels(table) =>
             lastWrite[req[r1].levels[i]] \in {r1, r2}
      /\ RunStepOf(r2) ) =>
    RatesOf(table') = RatesOf(table)

\* C10: once a batch has been applied and answered 200, no run of a second
\* request carrying the same batch changes any tier's rate, as long as no
\* other request wrote the batch's tiers in between.
C10_BulkUpdateIdempotent == [][C10_SecondRunStep]_vars

C10_Witness ==
  \E r1, r2 \in Reqs :
    /\ r1 # r2
    /\ Posted(req[r1]) /\ Sent(req[r1], 200)
    /\ Posted(req[r2]) /\ Sent(req[r2], 200)
    /\ req[r1].rates = req[r2].rates
    /\ req[r1].levels = <<"Level I", "Level II">>
    /\ lastWrite["Level I"] = r2 /\ lastWrite["Level II"] = r2
    /\ RowOf(table, "Level I").rate = JsNumber(200000)
    /\ RowOf(table, "Level II").rate = JsNumber(100000)
    /\ RowOf(table, "Level I").updated_at = 1

\* C11: last write wins per key: every tier a request has written holds the
\* rate that the request whose run on that tier SQLite executed last gave it,
\* whatever the order in which the requests arrived; different tiers may hold
\* the rates of different batches.
C11_LastWriteWins ==
  \A row \in table :
    lastWrite[row.level] \in Reqs =>
      /\ Posted(req[lastWrite[row.level]])
      /\ \E i \in 1..Len(req[lastWrite[row.level]].results) :
           /\ req[lastWrite[row.level]].levels[i] = row.level
           /\ req[lastWrite[row.level]].results[i] = "ok"
      /\ row.rate = SqlBind(GetProp(req[lastWrite[row.level]].rates, row.level))

\* Two answered batches that both wrote "Level I" and "Level II": the batch
\* that arrived first wrote "Level I" last, the other wrote "Level II" last
C11_Witness ==
  /\ req[1].rates = JsObject(<< <<"Level I", JsNumber(100000)>>,
                                <<"Level II", JsNumber(100000)>> >>)
  /\ req[2].rates = JsObject(<< <<"Level I", JsNumber(200000)>>,
                                <<"Level II", JsNumber(100000)>> >>)
  /\ req[1].results = <<"ok", "ok">> /\ Sent(req[1], 200)
  /\ req[2].results = <<"ok", "ok">> /\ Sent(req[2], 200)
  /\ lastWrite["Level I"] = 1
  /\ lastWrite["Level II"] = 2
  /\ RowOf(table, "Level I").rate = JsNumber(100000)

\* The rate a tier has when no request has written it since the store
\* was initialized
DefaultOf(level) ==
  (CHOOSE d \in {defaultRates[k] : k \in 1..Len(defaultRates)} : d[1] = level)[2]

\* The rows a SELECT executed on the table returns, as a set
Selected(q) == {q.rows[i] : i \in 1..Len(q.rows)}

\* The parts of C12: a 200 answer carries, for every row the SELECT returned,
\* the rate of that row
C12_Returned ==
  \A g \in Reqs :
    (req[g].kind = "GET" /\ Sent(req[g], 200)) =>
      \A row \in Selected(req[g]) :
        GetProp(req[g].responses[1].body, row.level) = row.rate

\* the SELECT returns the rates the tiers have at the moment it executes; when
\* a single batch is all that has written the store since it was initialized,
\* each of them is the default or the rate that batch gives the tier
C12_ReadStep ==
  \A g \in Reqs :
    (req[g].read = "queued" /\ req'[g].read = "ok") =>
      /\ Selected(req'[g]) = {[level |-> row.level, rate |-> row.rate] : row \in table}
      /\ \A p \in Reqs :
           ( /\ Posted(req[p])
             /\ \A other \in Reqs \ {p} : ~Posted(req[other])
             /\ \A level \in AllLevels : lastWrite[level] \in {0, p} ) =>
           \A row \in Selected(req'[g]) :
             \/ row.rate = DefaultOf(row.level)
             \/ /\ row.rate = SqlBind(GetProp(req[p].rates, row.level))
                /\ \E i \in 1..Len(req[p].results) :
                     req[p].levels[i] = row.level /\ req[p].results[i] = "ok"

\* a run of a batch changes the rate of the tier it names, to the rate the
\* batch gives it, and no other
C12_WriteStep ==
  \A p \in Reqs :
    RunStepOf(p) =>
      \A row \in table :
        \/ RateOf(table', row.level) = row.rate
        \/ /\ req[p].levels[Len(req'[p].results)] = row.level
           /\ RateOf(table', row.level) = SqlBind(GetProp(req[p].rates, row.level))

\* C12: a read takes no snapshot of a batch in flight: it can return the new
\* rate of one key of the batch beside the old rate of another, and for each
\* key what it returns is the rate before the batch or the rate the batch
\* writes, never another value.
C12_NoSnapshotIsolation ==
  []C12_Returned /\ [][C12_ReadStep /\ C12_WriteStep]_vars

\* A read answered while a two-key batch has written its first key only: the
\* new rate of "Level I" beside the old one of "Level II"
C12_Witness ==
  \E g, p \in Reqs :
    /\ req[p].rates = JsObject(<< <<"Level I", JsNumber(100000)>>,
                                  <<"Level II", JsNumber(100000)>> >>)
    /\ req[p].results = <<"ok">>
    /\ req[g].kind = "GET"
    /\ req[g].responses =
         <<Response(200, JsObject(<< <<"Level I", JsNumber(100000)>>,
                                     <<"Level II", JsNumber(RateII)>>,
                                     <<"Level III", JsNumber(RateIII)>> >>))>>

\* The parts of C13: what a GET request has been sent is nothing yet, or
\* one 200 whose body has exactly one entry per row that was read, with the
\* row's rate, or one 500 whose body is the error message and has no entry
\* for any tier
C13_Answer ==
  \A g \in Reqs :
    req[g].kind = "GET" =>
      \/ req[g].responses = <<>> /\ req[g].read # "done"
      \/ /\ req[g].read = "done"
         /\ Len(req[g].responses) = 1
         /\ LET res == req[g].responses[1]
            IN \/ /\ res.status = 200
                  /\ res.body.t = "object"
                  /\ Len(res.body.props) = Len(req[g].rows)
                  /\ \A i \in 1..Len(req[g].rows) :
                       res.body.props[i] = <<req[g].rows[i].level, req[g].rows[i].rate>>
               \/ /\ res.status = 500
                  /\ res.body = ErrorBody("Failed to fetch bonus rates")
                  /\ \A level \in AllLevels : GetProp(res.body, level) = JsUndefined

\* the SELECT returns a row for every tier of the table, and no step of a GET
\* request changes the table
C13_GetStep ==
  \A g \in Reqs :
    (req'[g].kind = "GET" /\ req'[g] # req[g]) =>
      /\ table' = table
      /\ req'[g].read = "ok" =>
           {req'[g].rows[i].level : i \in 1..Len(req'[g].rows)} = Levels(table)

\* C13: GetRates answers 200 with the whole mapping that was read, unchanged,
\* or, when the read fails, 500 with an error body that has no rate entry;
\* never a part of the mapping, and it never changes the store.
C13_GetRatesAllOrError == []C13_Answer /\ [][C13_GetStep]_vars

\* One read that failed and was answered 500, one that was answered with all
\* three tiers
C13_Witness ==
  \E g, h \in Reqs :
    /\ req[g].kind = "GET" /\ Sent(req[g], 500) /\ req[g].rows = <<>>
    /\ req[h].kind = "GET" /\ Sent(req[h], 200)
    /\ Len(req[h].responses[1].body.props) = Len(defaultRates)

\* The parts of C14: once the store is initialized every default tier
\* has a row
C14_TiersExist ==
  initPc = "done" =>
    \A k \in 1..Len(defaultRates) : defaultRates[k][1] \in Levels(table)

\* a step in which the process ends and its store (':memory:', a file of an
\* ephemeral file system) ends with it
StoreLost == initPc' = "create" /\ ~schema' /\ table' = {}

\* in a step of a live store every row stays, with its id and level, and
\* is the row that a successful run names and gets the rate of its batch and the
\* current time, or else keeps both its rate and its updated_at
C14_TierStep ==
  ~StoreLost =>
    \A row \in table :
      \E after \in table' :
        /\ after.id = row.id /\ after.level = row.level
        /\ \A other \in table' : other.level = row.level => other = after
        /\ IF \E p \in Reqs : /\ RunStepOf(p)
                              /\ req[p].levels[Len(req'[p].results)] = row.level
                              /\ req'[p].results[Len(req'[p].results)] = "ok"
             THEN /\ \E p \in Reqs :
                       /\ RunStepOf(p)
                       /\ after.rate = SqlBind(GetProp(req[p].rates, row.level))
                  /\ after.updated_at = now
             ELSE after.rate = row.rate /\ after.updated_at = row.updated_at

\* C14: a tier's rate and updated_at change together, in one step per tier,
\* and tiers are never deleted: no state, hence no state a reader can observe,
\* has a rate written by an update without that update's updated_at, and
\* every tier created at initialization still exists.
C14_RateAndTimeTogether == []C14_TiersExist /\ [][C14_TierStep]_vars

\* A batch in flight at time 1 has executed the first of its two runs: "Level
\* I" has the new rate and the new time, "Level II" the old rate and time
C14_Witness ==
  \E p \in Reqs :
    /\ req[p].levels = <<"Level I", "Level II">>
    /\ req[p].results = <<"ok">>
    /\ now = 1
    /\ RowOf(table, "Level I").rate = JsNumber(200000)
    /\ RowOf(table, "Level I").updated_at = 1
    /\ RowOf(table, "Level II").rate = JsNumber(RateII)
    /\ RowOf(table, "Level II").updated_at = 0
    /\ "Level III" \in Levels(table)

\* C15: a POST request is sent at most one response, whatever runs of its
\* batch succeed and fail, several failing runs included: never a 500 and a
\* 200, never two 500s.
C15_AtMostOneResponse ==
  \A r \in Reqs :
    Posted(req[r]) =>
      /\ Len(req[r].responses) <= 1
      /\ ~(Sent(req[r], 500) /\ Sent(req[r], 200))
      /\ req[r].hasError <=> Sent(req[r], 500)

\* Both runs of a batch failed and both callbacks ran: one 500
C15_Witness ==
  \E r \in Reqs :
    /\ req[r].results = <<"error", "error">>
    /\ req[r].called = 2
    /\ req[r].responses = <<Response(500, ErrorBody("Failed to update rates"))>>

\* The parts of C16: the handler has issued a run for every key of the batch
\* before any callback runs, and a run that is next in the statement's queue
\* can execute whether or not a run of the batch has failed and been answered
C16_AllRunsIssued ==
  \A r \in Reqs :
    (Posted(req[r]) /\ req[r].stmt # "none") =>
      /\ req[r].levels = ObjectKeys(req[r].rates)
      /\ Len(req[r].results) <= Len(req[r].levels)
      /\ (req[r].called = Len(req[r].results)
            /\ Len(req[r].results) < Len(req[r].levels)) => ENABLED StmtRun(r)

\* a run that does not fail itself writes its tier, also when the batch has
\* a failed run and the 500 has been sent
C16_RunStep ==
  \A r \in Reqs :
    ( /\ RunStepOf(r)
      /\ req'[r].results[Len(req'[r].results)] = "ok"
      /\ req[r].levels[Len(req'[r].results)] \in Levels(table) ) =>
    LET level == req[r].levels[Len(req'[r].results)]
    IN /\ RowOf(table', level).rate = SqlBind(GetProp(req[r].rates, level))
       /\ RowOf(table', level).updated_at = now
       /\ lastWrite'[level] = r

\* C16: a failing key does not stop the rest of its batch: every key's run is
\* issued before any completion is seen, the other keys that name a tier are
\* applied, before and after the failing one, and a run of the batch can
\* change the store after the 500 has been sent.
C16_FailureDoesNotStopBatch == []C16_AllRunsIssued /\ [][C16_RunStep]_vars

\* The first run of a batch failed on a null rate and was answered 500; the
\* second run then wrote "Level II"
C16_Witness ==
  \E r \in Reqs :
    /\ req[r].rates = JsObject(<< <<"Level I", JsNull>>,
                                  <<"Level II", JsNumber(100000)>> >>)
    /\ req[r].results = <<"error", "ok">>
    /\ req[r].responses = <<Response(500, ErrorBody("Failed to update rates"))>>
    /\ lastWrite["Level II"] = r
    /\ RowOf(table, "Level II").rate = JsNumber(100000)
    /\ RowOf(table, "Level I").rate = JsNumber(RateI)

\* C17: every stored rate is numeric: in every reachable state the rate of
\* every tier is a number and not null, whatever values (numbers, null, text)
\* the mappings of the requests hold.
C17_RatesNumeric ==
  \A row \in table : row.rate.t = "number"

\* C18: the UPDATE statement an accepted POST request prepares is finalized
\* on every outcome: once every run the handler queued on it has executed and
\* had its callback, so that no code of the request is left to run, the
\* statement has been finalized -- after a failed run and for an empty batch
\* as after a success.
C18_StatementFinalized ==
  \A r \in Reqs :
    ( /\ Posted(req[r])
      /\ req[r].stmt # "none"
      /\ req[r].called = Len(req[r].levels) ) =>
    req[r].stmt = "finalized"

\* The parts of C19: no tier has two rows; when both initializations are
\* done the tiers are the three defaults; and a tier that the second
\* initialization found written by a request still has the rate its last
\* writer gave it
C19_OneRowPerTier ==
  /\ \A row, other \in table : row.level = other.level => row = other
  /\ (initPc = "done" /\ cold.pc = "done") =>
       /\ Levels(table) = {defaultRates[k][1] : k \in 1..Len(defaultRates)}
       /\ Cardinality(table) = Len(defaultRates)
  /\ \A level \in cold.kept :
       /\ lastWrite[level] \in Reqs
       /\ RowOf(table, level).rate =
            SqlBind(GetProp(req[lastWrite[level]].rates, level))

\* a statement of either initialization leaves every row that exists as it is
C19_InitStep ==
  (initPc' # initPc \/ cold'.pc # cold.pc) =>
    \A row \in table : row \in table'

\* C19: two initializations of the same store that interleave insert by
\* insert, and with the writes of bulk updates, do not race: the store ends
\* with exactly one row per default tier, and an initialization that runs
\* after a tier exists does not reset its rate to the default.
C19_ConcurrentInitialize == []C19_OneRowPerTier /\ [][C19_InitStep]_vars

\* Both initializations are done; the second one ran its insert of "Level I"
\* after a request had written that tier, and the tier has the request's rate
C19_Witness ==
  /\ initPc = "done" /\ cold.pc = "done"
  /\ cold.kept = {"Level I"}
  /\ RowOf(table, "Level I").rate = JsNumber(200000)
  /\ Cardinality(table) = Len(defaultRates)

Next ==
  \/ Tick
  \/ \E survives \in BOOLEAN : Restart(survives)
  \/ CreateTable
  \/ InsertDefault
  \/ FinalizeInsert
  \/ \E r \in Reqs, rates \in Payloads : UpdateRates(r, rates)
  \/ \E r \in Reqs : StmtRun(r)
  \/ \E r \in Reqs : StmtCallback(r)
  \/ \E r \in Reqs : GetRates(r)
  \/ \E r \in Reqs : DbAll(r)
  \/ \E r \in Reqs : GetCallback(r)

Spec == Init /\ [][Next]_vars

\* The same program, with requests whose mapping holds a text rate as well
NextText ==
  \/ Next
  \/ \E r \in Reqs, rates \in TextPayloads : UpdateRates(r, rates)

SpecText == Init /\ [][NextText]_vars

\* Two processes start on one backing file: the initialization of the second
\* runs beside the initialization of the first and the updates it serves
InitCold ==
  /\ schema = FALSE
  /\ table = {}
  /\ now = 0
  /\ initPc = "create"
  /\ req = [r \in Reqs |-> NoRequest]
  /\ lastWrite = [l \in AllLevels |-> 0]
  /\ cold = [pc |-> "create", kept |-> {}]

NextCold ==
  \/ Tick
  \/ CreateTable
  \/ InsertDefault
  \/ FinalizeInsert
  \/ ColdCreateTable
  \/ ColdInsertDefault
  \/ ColdFinalizeInsert
  \/ \E r \in Reqs, rates \in Payloads : UpdateRates(r, rates)
  \/ \E r \in Reqs : StmtRun(r)
  \/ \E r \in Reqs : StmtCallback(r)

SpecCold == InitCold /\ [][NextCold]_vars

====
